---- MODULE Spec2Model ----
(***************************************************************************)
(* Model of the two rule runners of secure-code-analyzer:                  *)
(*   python_ast_runner.py  (Python frontend, ast module)                   *)
(*   java_ast_runner.py    (Java frontend, optional javalang module)       *)
(* One invocation reads {code, rules}, evaluates the rules and prints a    *)
(* findings map.                                                           *)
(*                                                                         *)
(* Text is a sequence of symbols (one identifier, punctuation mark or      *)
(* newline per symbol); str.__contains__, str.startswith and re.finditer   *)
(* work on these sequences the way they work on characters.                *)
(***************************************************************************)
EXTENDS Integers, Sequences, FiniteSets, TLC

(* ------------------------------ bounds -------------------------------- *)
\* longest program, in lines
MaxLines == 3
\* longest rule list
MaxRules == 2
\* invocations one behaviour of SpecRuns follows
MaxRuns == 3

(* ------------------------ sequences and text --------------------------- *)
RECURSIVE SeqsUpTo(_, _)
SeqsUpTo(S, n) ==
    IF n = 0 THEN {<<>>}
    ELSE LET shorter == SeqsUpTo(S, n - 1)
         IN  shorter \cup {Append(s, x) : s \in {t \in shorter : Len(t) = n - 1}, x \in S}

RECURSIVE Concat(_)
Concat(ss) == IF ss = <<>> THEN <<>> ELSE Head(ss) \o Concat(Tail(ss))

RECURSIVE Join(_, _)
Join(ss, sep) ==
    IF ss = <<>> THEN <<>>
    ELSE IF Len(ss) = 1 THEN Head(ss)
    ELSE Head(ss) \o sep \o Join(Tail(ss), sep)

\* Python `s in text` on strings
Contains(text, s) ==
    \E i \in 0..(Len(text) - Len(s)) : \A j \in 1..Len(s) : text[i + j] = s[j]

\* Python text.startswith(s)
StartsWith(text, s) ==
    /\ Len(s) <= Len(text)
    /\ \A j \in 1..Len(s) : text[j] = s[j]

\* any(src in text for src in sources)
AnySourceIn(sources, text) == \E src \in sources : Contains(text, src)

NL == "\n"

\* case folding of re.IGNORECASE; PASSWORD is the one upper-case symbol of the alphabet
Lower(sym) == IF sym = "PASSWORD" THEN "password" ELSE sym

(* --------------------------- expressions ------------------------------- *)
Name(id) == [kind |-> "Name", id |-> id]
Attribute(v, attr) == [kind |-> "Attribute", value |-> v, attr |-> attr]
Call(f, args) == [kind |-> "Call", func |-> f, args |-> args]
Constant(s) == [kind |-> "Constant", value |-> s]

\* results of get_name: a dotted name, None, or a raised TypeError
Ok(n) == [tag |-> "ok", name |-> n]
None == [tag |-> "none", name |-> <<>>]
Raise == [tag |-> "raise", name |-> <<>>]

\* python_ast_runner.get_name: None + "." + attr raises TypeError
RECURSIVE get_name(_)
get_name(node) ==
    IF node.kind = "Name" THEN Ok(<<node.id>>)
    ELSE IF node.kind = "Attribute"
    THEN LET inner == get_name(node.value)
         IN  IF inner.tag = "ok" THEN Ok(inner.name \o <<".", node.attr>>) ELSE Raise
    ELSE None

\* ast.unparse: the source text of an expression
RECURSIVE unparse(_)
unparse(e) ==
    IF e.kind = "Name" THEN <<e.id>>
    ELSE IF e.kind = "Attribute" THEN unparse(e.value) \o <<".", e.attr>>
    ELSE IF e.kind = "Call"
    THEN unparse(e.func) \o <<"(">>
         \o Join([i \in 1..Len(e.args) |-> unparse(e.args[i])], <<",">>) \o <<")">>
    ELSE <<e.value>>

(* ----------------------- javalang's view of a tree --------------------- *)
\* the node class javalang builds for an expression
JavaClass(e) ==
    IF e.kind = "Call" THEN "MethodInvocation"
    ELSE IF e.kind = "Constant" THEN "Literal"
    ELSE "MemberReference"

\* node.member: the last identifier of a reference or of an invoked method
RECURSIVE JavaMember(_)
JavaMember(e) ==
    IF e.kind = "Name" THEN e.id
    ELSE IF e.kind = "Attribute" THEN e.attr
    ELSE IF e.kind = "Call" THEN JavaMember(e.func)
    ELSE e.value

\* node.qualifier: the dotted receiver, '' when there is none
RECURSIVE JavaQualifier(_)
JavaQualifier(e) ==
    IF e.kind = "Attribute"
    THEN (IF get_name(e.value).tag = "ok" THEN get_name(e.value).name ELSE <<>>)
    ELSE IF e.kind = "Call" THEN JavaQualifier(e.func)
    ELSE <<>>

\* str(node) of a javalang node. javalang.ast.Node defines no __str__; its
\* __repr__ is the class name in one build ("name") and the class name with
\* the attributes, sorted by attribute name, in another ("attrs"). The
\* attributes that are constant for the expressions modelled here
\* (prefix_operators, postfix_operators, selectors, type_arguments) are left out.
RECURSIVE JavaStr(_, _)
JavaStr(e, style) ==
    IF style = "name" THEN <<JavaClass(e)>>
    ELSE IF e.kind = "Call"
    THEN <<"MethodInvocation", "(", "arguments", "=", "[">>
         \o Join([i \in 1..Len(e.args) |-> JavaStr(e.args[i], style)], <<",">>)
         \o <<"]", ",", "member", "=", JavaMember(e), ",", "qualifier", "=">>
         \o JavaQualifier(e) \o <<")">>
    ELSE IF e.kind = "Constant"
    THEN <<"Literal", "(", "qualifier", "=", "None", ",", "value", "=", e.value, ")">>
    ELSE <<"MemberReference", "(", "member", "=", JavaMember(e), ",", "qualifier", "=">>
         \o JavaQualifier(e) \o <<")">>

(* ------------------------- source files -------------------------------- *)
\* A source file is a sequence of lines; a line is a statement, given by its
\* syntax tree, or a line no frontend can parse, given by its text.
AssignStmt(targets, value) == [kind |-> "Assign", targets |-> targets, value |-> value]
ExprStmt(value) == [kind |-> "Expr", value |-> value]
Malformed(text) == [kind |-> "Malformed", text |-> text]

\* a Java local variable declaration with initializer: T name = value;
IsDeclaration(line) ==
    /\ line.kind = "Assign"
    /\ Len(line.targets) = 1
    /\ line.targets[1].kind = "Name"

\* the text of one line in the language of the file
Render(lang, line) ==
    IF line.kind = "Malformed" THEN line.text
    ELSE IF line.kind = "Expr"
    THEN unparse(line.value) \o (IF lang = "java" THEN <<";">> ELSE <<>>)
    ELSE (IF lang = "java" /\ IsDeclaration(line) THEN <<"String">> ELSE <<>>)
         \o Join([i \in 1..Len(line.targets) |-> unparse(line.targets[i])], <<"=">>)
         \o <<"=">> \o unparse(line.value)
         \o (IF lang = "java" THEN <<";">> ELSE <<>>)

\* payload["code"]: the raw text of the file
SourceText(lang, lines) ==
    Concat([i \in 1..Len(lines) |-> Render(lang, lines[i]) \o <<NL>>])

\* ast.parse / javalang.parse.parse succeed iff every line is a statement
Parses(lines) == \A i \in 1..Len(lines) : lines[i].kind # "Malformed"

\* ast.NodeVisitor.generic_visit below an expression: the Call nodes, pre-order
\* (visit_Call handles the node, then generic_visit descends into func and args)
RECURSIVE CallsIn(_, _)
CallsIn(e, lineno) ==
    IF e.kind = "Attribute" THEN CallsIn(e.value, lineno)
    ELSE IF e.kind = "Call"
    THEN <<[kind |-> "Call", func |-> e.func, args |-> e.args, lineno |-> lineno]>>
         \o CallsIn(e.func, lineno)
         \o Concat([i \in 1..Len(e.args) |-> CallsIn(e.args[i], lineno)])
    ELSE <<>>

\* a faulty variant of PyNodes: a pass that handles every assignment of the
\* module before any call
PyNodesAssignsFirst(lines) ==
    Concat([i \in 1..Len(lines) |->
        IF lines[i].kind = "Assign"
        THEN <<[kind |-> "Assign", targets |-> lines[i].targets,
                value |-> lines[i].value, lineno |-> i]>>
        ELSE <<>>])
    \o Concat([i \in 1..Len(lines) |->
        IF lines[i].kind = "Assign"
        THEN Concat([j \in 1..Len(lines[i].targets) |-> CallsIn(lines[i].targets[j], i)])
             \o CallsIn(lines[i].value, i)
        ELSE IF lines[i].kind = "Expr" THEN CallsIn(lines[i].value, i)
        ELSE <<>>])

\* the Assign and Call nodes of the module in the order visitor.visit(tree)
\* reaches them
PyNodes(lines) ==
    Concat([i \in 1..Len(lines) |->
        IF lines[i].kind = "Assign"
        THEN <<[kind |-> "Assign", targets |-> lines[i].targets,
                value |-> lines[i].value, lineno |-> i]>>
             \o Concat([j \in 1..Len(lines[i].targets) |-> CallsIn(lines[i].targets[j], i)])
             \o CallsIn(lines[i].value, i)
        ELSE IF lines[i].kind = "Expr" THEN CallsIn(lines[i].value, i)
        ELSE <<>>])

\* `for path, node in tree` below an expression: the MethodInvocation nodes,
\* pre-order; a call on the result of a call is a selector of the inner call
RECURSIVE JavaCallsIn(_, _)
JavaCallsIn(e, line) ==
    IF e.kind = "Attribute" THEN JavaCallsIn(e.value, line)
    ELSE IF e.kind = "Call"
    THEN JavaCallsIn(e.func, line)
         \o <<[kind |-> "MethodInvocation", member |-> JavaMember(e),
               qualifier |-> JavaQualifier(e), arguments |-> e.args, line |-> line]>>
         \o Concat([i \in 1..Len(e.args) |-> JavaCallsIn(e.args[i], line)])
    ELSE <<>>

\* the VariableDeclarator and MethodInvocation nodes of the compilation unit
\* in the order of javalang's tree walk
JavaNodes(lines) ==
    Concat([i \in 1..Len(lines) |->
        IF lines[i].kind = "Assign"
        THEN (IF IsDeclaration(lines[i])
              THEN <<[kind |-> "VariableDeclarator", name |-> <<lines[i].targets[1].id>>,
                      initializer |-> lines[i].value, line |-> i]>>
              ELSE Concat([j \in 1..Len(lines[i].targets) |->
                              JavaCallsIn(lines[i].targets[j], i)]))
             \o JavaCallsIn(lines[i].value, i)
        ELSE IF lines[i].kind = "Expr" THEN JavaCallsIn(lines[i].value, i)
        ELSE <<>>])

(* ------------------------------ regex ---------------------------------- *)
\* a pattern is a literal: a sequence of symbols, each matched ignoring case
MatchAt(pattern, text, i) ==
    /\ i + Len(pattern) <= Len(text)
    /\ \A j \in 1..Len(pattern) : Lower(text[i + j]) = Lower(pattern[j])

\* re.finditer(pattern, text, re.IGNORECASE): the start offsets of the
\* matches, scanning left to right; the scan resumes at the end of a match
\* (one symbol further after an empty match)
RECURSIVE FindFrom(_, _, _)
FindFrom(pattern, text, i) ==
    IF i > Len(text) THEN <<>>
    ELSE IF MatchAt(pattern, text, i)
    THEN <<i>> \o FindFrom(pattern, text, IF Len(pattern) = 0 THEN i + 1 ELSE i + Len(pattern))
    ELSE FindFrom(pattern, text, i + 1)

finditer(pattern, text) == FindFrom(pattern, text, 0)

\* code[:m.start()].count("\n") + 1
LineOf(text, start) == Cardinality({k \in 1..start : text[k] = NL}) + 1

(* ------------------------------- rules --------------------------------- *)
\* a rule is a JSON object: a function from its keys to their values
Has(rule, key) == key \in DOMAIN rule

\* rule.get(key, default)
Get(rule, key, default) == IF Has(rule, key) THEN rule[key] ELSE default

\* `rule.get(key) and ...` for a string-valued key: present and not empty
Truthy(rule, key) == Has(rule, key) /\ Len(rule[key]) > 0

\* findings.setdefault(id, []).append(line)
Appended(f, id, line) ==
    IF id \in DOMAIN f THEN [f EXCEPT ![id] = Append(@, line)]
    ELSE (id :> <<line>>) @@ f

\* The state a loop over rules threads through: the findings map, the taint
\* set and the exception raised so far ("" when none); once an exception is
\* raised nothing further is executed.
Raised(st, exc) == [st EXCEPT !.exc = exc]

(* ----------------------- python_ast_runner.py -------------------------- *)
\* mark(rule, node): rule["id"] raises KeyError when the rule has no id
mark(rule, lineno, st) ==
    IF st.exc # "" THEN st
    ELSE IF ~Has(rule, "id") THEN Raised(st, "KeyError")
    ELSE [st EXCEPT !.findings = Appended(@, rule.id, lineno)]

markIf(cond, rule, lineno, st) == IF cond THEN mark(rule, lineno, st) ELSE st

\* a faulty variant of PyAssignRule: tainting the targets replaces the taint set
PyAssignRuleOverwrites(rule, node, rhs_code, lhs_names, st) ==
    IF st.exc # "" THEN st
    ELSE IF ~Has(rule, "type") THEN Raised(st, "KeyError")
    ELSE IF rule.type # "taint-ast" THEN st
    ELSE LET direct == IF AnySourceIn(Get(rule, "sources", {}), rhs_code)
                       THEN lhs_names
                       ELSE st.tainted_vars
             rhs_name == get_name(node.value)
         IN  IF rhs_name.tag = "raise"
             THEN [st EXCEPT !.tainted_vars = direct, !.exc = "TypeError"]
             ELSE [st EXCEPT !.tainted_vars =
                      IF rhs_name.tag = "ok" /\ rhs_name.name \in st.tainted_vars
                      THEN lhs_names
                      ELSE direct]

\* visit_Assign, the body of `for rule in rules` for one rule
PyAssignRule(rule, node, rhs_code, lhs_names, st) ==
    IF st.exc # "" THEN st
    ELSE IF ~Has(rule, "type") THEN Raised(st, "KeyError")
    ELSE IF rule.type # "taint-ast" THEN st
    ELSE LET direct == IF AnySourceIn(Get(rule, "sources", {}), rhs_code)
                       THEN st.tainted_vars \cup lhs_names
                       ELSE st.tainted_vars
             rhs_name == get_name(node.value)
         IN  IF rhs_name.tag = "raise"
             THEN [st EXCEPT !.tainted_vars = direct, !.exc = "TypeError"]
             ELSE [st EXCEPT !.tainted_vars =
                      IF rhs_name.tag = "ok" /\ rhs_name.name \in direct
                      THEN direct \cup lhs_names
                      ELSE direct]

RECURSIVE PyAssignLoop(_, _, _, _, _)
PyAssignLoop(rs, node, rhs_code, lhs_names, st) ==
    IF rs = <<>> THEN st
    ELSE PyAssignLoop(Tail(rs), node, rhs_code, lhs_names,
                      PyAssignRule(Head(rs), node, rhs_code, lhs_names, st))

\* Visitor.visit_Assign
visit_Assign(node, rs, unparseAvailable, st) ==
    LET rhs_code == IF unparseAvailable THEN unparse(node.value) ELSE <<>>
        names == [i \in 1..Len(node.targets) |-> get_name(node.targets[i])]
        lhs_names == {names[i].name : i \in {j \in 1..Len(node.targets) : names[j].tag = "ok"}}
    IN  IF \E i \in 1..Len(node.targets) : names[i].tag = "raise"
        THEN Raised(st, "TypeError")
        ELSE PyAssignLoop(rs, node, rhs_code, lhs_names, st)

\* visit_Call, the `for arg in node.args` loop of a taint-ast rule
RECURSIVE PyArgLoop(_, _, _, _, _)
PyArgLoop(args, rule, lineno, unparseAvailable, st) ==
    IF st.exc # "" \/ args = <<>> THEN st
    ELSE LET arg == Head(args)
             arg_name == get_name(arg)
             arg_code == IF unparseAvailable THEN unparse(arg) ELSE <<>>
         IN  IF arg_name.tag = "raise" THEN Raised(st, "TypeError")
             ELSE LET byName == markIf(arg_name.tag = "ok" /\ arg_name.name \in st.tainted_vars,
                                       rule, lineno, st)
                      bySource == markIf(AnySourceIn(Get(rule, "sources", {}), arg_code),
                                         rule, lineno, byName)
                  IN  PyArgLoop(Tail(args), rule, lineno, unparseAvailable, bySource)

\* visit_Call, the ast / context-ast predicates of one rule
PyStructural(rule, node, func_name, st) ==
    LET callee == markIf(Truthy(rule, "calleeName") /\ func_name = rule.calleeName,
                         rule, node.lineno, st)
        object == markIf(Truthy(rule, "objectName") /\ StartsWith(func_name, rule.objectName),
                         rule, node.lineno, callee)
    IN  markIf(/\ Get(rule, "argIsString", FALSE)
               /\ Len(node.args) > 0
               /\ node.args[1].kind = "Constant",
               rule, node.lineno, object)

\* a faulty variant of PyTaintCall: a rule consults the taint set only when
\* one of its own sources occurs in an argument of the call
PyTaintCallOwnSources(rule, node, func_name, unparseAvailable, st) ==
    IF func_name \in Get(rule, "sinks", {})
    THEN LET own == \E i \in 1..Len(node.args) :
                       AnySourceIn(Get(rule, "sources", {}),
                                   IF unparseAvailable THEN unparse(node.args[i]) ELSE <<>>)
             seen == IF own THEN st ELSE [st EXCEPT !.tainted_vars = {}]
         IN  [PyArgLoop(node.args, rule, node.lineno, unparseAvailable, seen)
                 EXCEPT !.tainted_vars = st.tainted_vars]
    ELSE st

\* visit_Call, the taint-ast branch of one rule
PyTaintCall(rule, node, func_name, unparseAvailable, st) ==
    IF func_name \in Get(rule, "sinks", {})
    THEN PyArgLoop(node.args, rule, node.lineno, unparseAvailable, st)
    ELSE st

\* visit_Call, the body of `for rule in rules` for one rule
PyCallRule(rule, node, func_name, unparseAvailable, st) ==
    IF st.exc # "" THEN st
    ELSE IF ~Has(rule, "type") THEN Raised(st, "KeyError")
    ELSE IF rule.type \in {"ast", "context-ast"} THEN PyStructural(rule, node, func_name, st)
    ELSE IF rule.type = "taint-ast" THEN PyTaintCall(rule, node, func_name, unparseAvailable, st)
    ELSE st

RECURSIVE PyCallLoop(_, _, _, _, _)
PyCallLoop(rs, node, func_name, unparseAvailable, st) ==
    IF rs = <<>> THEN st
    ELSE PyCallLoop(Tail(rs), node, func_name, unparseAvailable,
                    PyCallRule(Head(rs), node, func_name, unparseAvailable, st))

\* Visitor.visit_Call: func_name = get_name(node.func) or ""
visit_Call(node, rs, unparseAvailable, st) ==
    LET resolved == get_name(node.func)
        func_name == IF resolved.tag = "ok" THEN resolved.name ELSE <<>>
    IN  IF resolved.tag = "raise" THEN Raised(st, "TypeError")
        ELSE PyCallLoop(rs, node, func_name, unparseAvailable, st)

\* the regex / heuristic loop, the body for one rule: rule["pattern"] raises
\* KeyError when the rule has no pattern, rule["id"] at the first match when
\* it has no id
RegexRule(rule, text, st) ==
    IF st.exc # "" THEN st
    ELSE IF ~Has(rule, "type") THEN Raised(st, "KeyError")
    ELSE IF rule.type \notin {"regex", "heuristic"} THEN st
    ELSE IF ~Has(rule, "pattern") THEN Raised(st, "KeyError")
    ELSE LET starts == finditer(rule.pattern, text)
         IN  IF starts = <<>> THEN st
             ELSE IF ~Has(rule, "id") THEN Raised(st, "KeyError")
             ELSE [st EXCEPT !.findings =
                      (rule.id :> (Get(@, rule.id, <<>>)
                                   \o [k \in 1..Len(starts) |-> LineOf(text, starts[k])])) @@ @]

\* python_ast_runner.py: `for rule in rules` of the regex / heuristic pass
RECURSIVE PyRegexLoop(_, _, _)
PyRegexLoop(rs, text, st) ==
    IF rs = <<>> THEN st
    ELSE PyRegexLoop(Tail(rs), text, RegexRule(Head(rs), text, st))

(* ------------------------ java_ast_runner.py --------------------------- *)
\* java_ast_runner.py: `for rule in rules` of the regex / heuristic pass
RECURSIVE JavaRegexLoop(_, _, _)
JavaRegexLoop(rs, text, st) ==
    IF rs = <<>> THEN st
    ELSE JavaRegexLoop(Tail(rs), text, RegexRule(Head(rs), text, st))

\* node.position.line if node.position else 0
JavaLine(node, lib) == IF lib.positions THEN node.line ELSE 0

\* mark(rule, node, line)
java_mark(rule, line, st) ==
    IF st.exc # "" THEN st
    ELSE IF ~Has(rule, "id") THEN Raised(st, "KeyError")
    ELSE [st EXCEPT !.findings = Appended(@, rule.id, line)]

java_markIf(cond, rule, line, st) == IF cond THEN java_mark(rule, line, st) ELSE st

\* the ast / context-ast predicates of one rule on one node
JavaStructural(rule, node, lib, st) ==
    IF node.kind # "MethodInvocation" THEN st
    ELSE LET callee == java_markIf(Truthy(rule, "calleeName") /\ <<node.member>> = rule.calleeName,
                                   rule, JavaLine(node, lib), st)
         IN  java_markIf(Truthy(rule, "objectName") /\ node.qualifier = rule.objectName,
                         rule, JavaLine(node, lib), callee)

\* the `for arg in node.arguments` loop of a taint-ast rule
RECURSIVE JavaArgLoop(_, _, _, _, _)
JavaArgLoop(args, rule, node, lib, st) ==
    IF st.exc # "" \/ args = <<>> THEN st
    ELSE LET arg_str == JavaStr(Head(args), lib.repr)
             bySource == java_markIf(AnySourceIn(Get(rule, "sources", {}), arg_str),
                                     rule, JavaLine(node, lib), st)
             byName == java_markIf(arg_str \in st.tainted_vars,
                                   rule, JavaLine(node, lib), bySource)
         IN  JavaArgLoop(Tail(args), rule, node, lib, byName)

\* the taint-ast branch of one rule on one node
JavaTaint(rule, node, lib, st) ==
    IF node.kind = "VariableDeclarator"
    THEN LET rhs == JavaStr(node.initializer, lib.repr)
         IN  IF AnySourceIn(Get(rule, "sources", {}), rhs)
             THEN [st EXCEPT !.tainted_vars = @ \cup {node.name}]
             ELSE st
    ELSE IF <<node.member>> \in Get(rule, "sinks", {})
    THEN JavaArgLoop(node.arguments, rule, node, lib, st)
    ELSE st

\* the body of `for rule in rules` for one rule on one node of the walk
JavaRule(rule, node, lib, st) ==
    IF st.exc # "" THEN st
    ELSE IF ~Has(rule, "type") THEN Raised(st, "KeyError")
    ELSE IF rule.type \in {"ast", "context-ast"} THEN JavaStructural(rule, node, lib, st)
    ELSE IF rule.type = "taint-ast" THEN JavaTaint(rule, node, lib, st)
    ELSE st

RECURSIVE JavaRuleLoop(_, _, _, _)
JavaRuleLoop(rs, node, lib, st) ==
    IF rs = <<>> THEN st
    ELSE JavaRuleLoop(Tail(rs), node, lib, JavaRule(Head(rs), node, lib, st))

(* ------------------------------ inputs --------------------------------- *)
\* request.args.get('id')
SourceExpr == Call(Attribute(Attribute(Name("request"), "args"), "get"), <<Constant("'id'")>>)

\* the lines programs are made of
Lines ==
    { AssignStmt(<<Name("q")>>, SourceExpr),                                   \* q = request.args.get('id')
      AssignStmt(<<Name("b")>>, Name("q")),                                    \* b = q
      ExprStmt(Call(Name("execute"), <<Name("q")>>)),                          \* execute(q)
      ExprStmt(Call(Attribute(Name("db"), "execute"), <<Name("q")>>)),         \* db.execute(q)
      ExprStmt(Call(Name("execute"), <<Attribute(Name("request"), "args")>>)), \* execute(request.args)
      ExprStmt(Call(Name("execute"), <<Attribute(SourceExpr, "x")>>)),         \* execute(request.args.get('id').x)
      Malformed(<<"PASSWORD", "=", "(">>) }                                    \* PASSWORD = (

\* the rules rule lists are made of
RegexRuleR1 == [id |-> "r1", type |-> "regex", pattern |-> <<"password", "=">>]
HeuristicRuleH1 == [id |-> "h1", type |-> "heuristic", pattern |-> <<".">>]
NoPatternRule == [id |-> "m1", type |-> "regex"]
TaintRuleT1 ==
    [id |-> "t1", type |-> "taint-ast",
     sources |-> {<<"request", ".", "args">>}, sinks |-> {<<"execute">>}]
AstRuleA1 ==
    [id |-> "a1", type |-> "ast", calleeName |-> <<"execute">>, objectName |-> <<"db">>]

RuleCatalog == {RegexRuleR1, HeuristicRuleH1, NoPatternRule, TaintRuleT1, AstRuleA1}

\* the javalang installations: not importable, or one of the builds
NoJavalang == [available |-> FALSE, repr |-> "name", positions |-> FALSE]
JavalangBuilds ==
    {NoJavalang} \cup [available : {TRUE}, repr : {"name", "attrs"}, positions : BOOLEAN]

\* an invocation: which runner, on which installation, with which payload;
\* the installation of the runner that is not invoked is left at one value
Inputs(programs, ruleLists) ==
    [lang : {"python"}, hasUnparse : BOOLEAN, javalang : {NoJavalang},
     code : programs, rules : ruleLists]
    \cup
    [lang : {"java"}, hasUnparse : {TRUE}, javalang : JavalangBuilds,
     code : programs, rules : ruleLists]

AllInputs == Inputs(SeqsUpTo(Lines, MaxLines), SeqsUpTo(RuleCatalog, MaxRules))

\* the programs and rule lists of the taint pass: statements only
TaintLines == {l \in Lines : l.kind # "Malformed"}
TaintRules == {TaintRuleT1, AstRuleA1}
TaintInputs == Inputs(SeqsUpTo(TaintLines, MaxLines), SeqsUpTo(TaintRules, MaxRules))

\* the payloads of repeated invocations
RunPrograms ==
    { <<ExprStmt(Call(Name("execute"), <<Name("q")>>)),
        AssignStmt(<<Name("q")>>, SourceExpr)>>,                        \* execute(q); q = request.args.get('id')
      <<ExprStmt(Call(Name("execute"), <<Name("q")>>))>>,               \* execute(q)
      <<Malformed(<<"PASSWORD", "=", "(">>)>> }                         \* PASSWORD = (
RunRuleLists == {<<TaintRuleT1>>, <<RegexRuleR1, HeuristicRuleH1>>}
RunPayloads == [lang : {"python", "java"}, code : RunPrograms, rules : RunRuleLists]

(* ------------------------------- state --------------------------------- *)
VARIABLES
    lang,          \* "python" or "java": the runner invoked
    hasUnparse,    \* hasattr(ast, "unparse")
    javalang,      \* the javalang module, or its absence
    code,          \* payload["code"], as lines
    rules,         \* payload["rules"]
    pc,            \* where the script is
    nodes,         \* the nodes of the tree still to visit, in walk order
    findings,      \* the findings map
    tainted_vars,  \* the taint set
    stdout,        \* what the script printed: << >> or one JSON object
    runs,          \* the number of the invocation
    log            \* the inputs and outputs of the invocations that ended

vars == <<lang, hasUnparse, javalang, code, rules, pc, nodes, findings,
          tainted_vars, stdout, runs, log>>

input == [lang |-> lang, hasUnparse |-> hasUnparse, javalang |-> javalang,
          code |-> code, rules |-> rules]

NoFindings == <<>>
NoError == ""
Printed(f, err) == <<[findings |-> f, error |-> err]>>
State == [findings |-> findings, tainted_vars |-> tainted_vars, exc |-> ""]
\* findings = {} and tainted_vars = set()
Fresh == [findings |-> NoFindings, tainted_vars |-> {}, exc |-> ""]

\* the script is loaded: payload read, nothing evaluated yet
Load(in) ==
    /\ lang = in.lang
    /\ hasUnparse = in.hasUnparse
    /\ javalang = in.javalang
    /\ code = in.code
    /\ rules = in.rules
    /\ pc = "start"
    /\ nodes = <<>>
    /\ findings = NoFindings
    /\ tainted_vars = {}
    /\ stdout = <<>>

Init ==
    /\ \E in \in AllInputs : Load(in)
    /\ runs = 1
    /\ log = <<>>

payload == <<lang, hasUnparse, javalang, code, rules>>

(* ------------------------ python_ast_runner.py -------------------------- *)
\* a faulty variant of PyParse: tainted_vars is not created anew
PyParseKeepsTaint ==
    /\ lang = "python" /\ pc = "start"
    /\ IF Parses(code)
       THEN /\ pc' = "walk"
            /\ nodes' = PyNodes(code)
            /\ stdout' = stdout
       ELSE /\ pc' = "done"
            /\ nodes' = nodes
            /\ stdout' = Printed(NoFindings, "Python parse error")
    /\ findings' = NoFindings
    /\ UNCHANGED <<payload, tainted_vars, runs, log>>

\* lines 14-21: parse; on failure print the error object and exit
PyParse ==
    /\ lang = "python" /\ pc = "start"
    /\ IF Parses(code)
       THEN /\ pc' = "walk"
            /\ nodes' = PyNodes(code)
            /\ stdout' = stdout
       ELSE /\ pc' = "done"
            /\ nodes' = nodes
            /\ stdout' = Printed(NoFindings, "Python parse error")
    /\ findings' = NoFindings
    /\ tainted_vars' = {}
    /\ UNCHANGED <<payload, runs, log>>

\* lines 79-80: the visitor reaches the next Assign or Call node; an
\* exception leaves the script with a traceback and nothing printed
PyVisit ==
    /\ lang = "python" /\ pc = "walk" /\ nodes # <<>>
    /\ LET node == Head(nodes)
           st == IF node.kind = "Assign"
                 THEN visit_Assign(node, rules, hasUnparse, State)
                 ELSE visit_Call(node, rules, hasUnparse, State)
       IN  /\ findings' = st.findings
           /\ tainted_vars' = st.tainted_vars
           /\ pc' = IF st.exc # "" THEN "crashed" ELSE "walk"
    /\ nodes' = Tail(nodes)
    /\ UNCHANGED <<payload, stdout, runs, log>>

\* lines 82-89: the regex / heuristic pass, then print(json.dumps(findings))
PyRegex ==
    /\ lang = "python" /\ pc = "walk" /\ nodes = <<>>
    /\ LET st == PyRegexLoop(rules, SourceText(lang, code), State)
       IN  /\ findings' = st.findings
           /\ pc' = IF st.exc # "" THEN "crashed" ELSE "done"
           /\ stdout' = IF st.exc # "" THEN stdout ELSE Printed(st.findings, NoError)
    /\ UNCHANGED <<payload, nodes, tainted_vars, runs, log>>

(* ------------------------- java_ast_runner.py --------------------------- *)
\* lines 18-29: findings = {}, tainted_vars = set(), then the regex /
\* heuristic pass, outside any try
JavaRegex ==
    /\ lang = "java" /\ pc = "start"
    /\ LET st == JavaRegexLoop(rules, SourceText(lang, code), Fresh)
       IN  /\ findings' = st.findings
           /\ pc' = IF st.exc # "" THEN "crashed" ELSE "parse"
    /\ tainted_vars' = {}
    /\ UNCHANGED <<payload, nodes, stdout, runs, log>>

\* lines 32-34, 60-63: without javalang print the findings; a parse failure
\* sets findings["error"] and prints
JavaParse ==
    /\ lang = "java" /\ pc = "parse"
    /\ IF ~javalang.available
       THEN /\ pc' = "done"
            /\ nodes' = nodes
            /\ stdout' = Printed(findings, NoError)
       ELSE IF ~Parses(code)
       THEN /\ pc' = "done"
            /\ nodes' = nodes
            /\ stdout' = Printed(findings, "Java parse error")
       ELSE /\ pc' = "walk"
            /\ nodes' = JavaNodes(code)
            /\ stdout' = stdout
    /\ UNCHANGED <<payload, findings, tainted_vars, runs, log>>

\* lines 36-61: the walk reaches the next node; an exception is caught by
\* `except Exception`, reported as a parse error, and the map is printed
JavaVisit ==
    /\ lang = "java" /\ pc = "walk" /\ nodes # <<>>
    /\ LET st == JavaRuleLoop(rules, Head(nodes), javalang, State)
       IN  /\ findings' = st.findings
           /\ tainted_vars' = st.tainted_vars
           /\ pc' = IF st.exc # "" THEN "done" ELSE "walk"
           /\ stdout' = IF st.exc # "" THEN Printed(st.findings, "Java parse error") ELSE stdout
    /\ nodes' = Tail(nodes)
    /\ UNCHANGED <<payload, runs, log>>

\* line 63: print(json.dumps(findings)) after the walk
JavaPrint ==
    /\ lang = "java" /\ pc = "walk" /\ nodes = <<>>
    /\ pc' = "done"
    /\ stdout' = Printed(findings, NoError)
    /\ UNCHANGED <<payload, nodes, findings, tainted_vars, runs, log>>

Terminated == pc \in {"done", "crashed"}

Next ==
    \/ PyParse
    \/ PyVisit
    \/ PyRegex
    \/ JavaRegex
    \/ JavaParse
    \/ JavaVisit
    \/ JavaPrint

Spec == Init /\ [][Next]_vars

\* the taint pass on programs of statements
InitTaint ==
    /\ \E in \in TaintInputs : Load(in)
    /\ runs = 1
    /\ log = <<>>

SpecTaint == InitTaint /\ [][Next]_vars

(* ----------------------- repeated invocations --------------------------- *)
\* The caller starts the runner again, as a new process on the same
\* installation, once the previous process has ended. What the previous
\* process held stays in findings and tainted_vars until the script assigns
\* them (python lines 20-21, java lines 18-19).
NewInvocation ==
    /\ Terminated
    /\ runs < MaxRuns
    /\ \E p \in RunPayloads :
          /\ lang' = p.lang
          /\ code' = p.code
          /\ rules' = p.rules
    /\ pc' = "start"
    /\ nodes' = <<>>
    /\ stdout' = <<>>
    /\ runs' = runs + 1
    /\ log' = Append(log, [lang |-> lang, code |-> code, rules |-> rules, stdout |-> stdout])
    /\ UNCHANGED <<hasUnparse, javalang, findings, tainted_vars>>

InitRuns ==
    /\ \E p \in RunPayloads :
          /\ lang = p.lang
          /\ code = p.code
          /\ rules = p.rules
    /\ hasUnparse \in BOOLEAN
    /\ javalang \in JavalangBuilds
    /\ pc = "start"
    /\ nodes = <<>>
    /\ findings = NoFindings
    /\ tainted_vars = {}
    /\ stdout = <<>>
    /\ runs = 1
    /\ log = <<>>

NextRuns == Next \/ NewInvocation

SpecRuns == InitRuns /\ [][NextRuns]_vars

(* ------------------------- one whole invocation ------------------------- *)
\* visitor.visit(tree): the handlers in walk order, up to the first exception
RECURSIVE PyWalk(_, _, _, _)
PyWalk(ns, rs, unparseAvailable, st) ==
    IF ns = <<>> \/ st.exc # "" THEN st
    ELSE PyWalk(Tail(ns), rs, unparseAvailable,
                IF Head(ns).kind = "Assign"
                THEN visit_Assign(Head(ns), rs, unparseAvailable, st)
                ELSE visit_Call(Head(ns), rs, unparseAvailable, st))

\* what python_ast_runner.py prints for a payload
PyOutput(in) ==
    IF ~Parses(in.code) THEN Printed(NoFindings, "Python parse error")
    ELSE LET walked == PyWalk(PyNodes(in.code), in.rules, in.hasUnparse, Fresh)
             done == PyRegexLoop(in.rules, SourceText("python", in.code), walked)
         IN  IF done.exc # "" THEN <<>> ELSE Printed(done.findings, NoError)

\* `for path, node in tree`: the rule loop per node, up to the first exception
RECURSIVE JavaWalk(_, _, _, _)
JavaWalk(ns, rs, lib, st) ==
    IF ns = <<>> \/ st.exc # "" THEN st
    ELSE JavaWalk(Tail(ns), rs, lib, JavaRuleLoop(rs, Head(ns), lib, st))

\* what java_ast_runner.py prints for a payload
JavaOutput(in) ==
    LET scanned == JavaRegexLoop(in.rules, SourceText("java", in.code), Fresh)
    IN  IF scanned.exc # "" THEN <<>>
        ELSE IF ~in.javalang.available THEN Printed(scanned.findings, NoError)
        ELSE IF ~Parses(in.code) THEN Printed(scanned.findings, "Java parse error")
        ELSE LET walked == JavaWalk(JavaNodes(in.code), in.rules, in.javalang, scanned)
             IN  Printed(walked.findings, IF walked.exc # "" THEN "Java parse error" ELSE NoError)

Output(in) == IF in.lang = "python" THEN PyOutput(in) ELSE JavaOutput(in)

(* --------------------------- claim vocabulary --------------------------- *)
HasOutput == stdout # <<>>
Out == stdout[1]
Range(s) == {s[i] : i \in 1..Len(s)}

\* the lines printed under a rule id
LinesUnder(id) ==
    IF HasOutput /\ id \in DOMAIN Out.findings THEN Out.findings[id] ELSE <<>>

\* the lines held under a rule id in the findings map
FindingsUnder(id) == IF id \in DOMAIN findings THEN findings[id] ELSE <<>>

\* a rule with the fields its type requires
WellFormed(rule) ==
    /\ Has(rule, "id") /\ Has(rule, "type")
    /\ rule.type \in {"regex", "heuristic"} => Has(rule, "pattern")

AllWellFormed(rs) == \A k \in 1..Len(rs) : WellFormed(rs[k])

IsPatternRule(rule) == WellFormed(rule) /\ rule.type \in {"regex", "heuristic"}
IsTaintRule(rule) == WellFormed(rule) /\ rule.type = "taint-ast"

\* no other rule of the list writes under the id of rules[k]
IdOnce(k) ==
    \A j \in 1..Len(rules) : j # k => (~Has(rules[j], "id") \/ rules[j].id # rules[k].id)

\* the selected frontend exists
FrontendAvailable == lang = "python" \/ javalang.available

\* the start offsets at which a pattern matches a text
MatchOffsets(pattern, text) == {i \in 0..Len(text) : MatchAt(pattern, text, i)}

\* the number of times a line occurs in a list of lines
Count(lines, l) == Cardinality({i \in 1..Len(lines) : lines[i] = l})

\* a top-level call statement
IsCallStmt(line) == line.kind = "Expr" /\ line.value.kind = "Call"

\* the callable name of a call as the frontend resolves it
Callee(call) ==
    IF lang = "java" THEN <<JavaMember(call)>>
    ELSE IF get_name(call.func).tag = "ok" THEN get_name(call.func).name ELSE <<>>

(* ------------------------------- claims --------------------------------- *)

\* C1 (parse failure isolation): whenever the selected frontend fails to
\* parse the source, the printed map holds an error entry and, under the id
\* of every regex / heuristic rule, every line on which the rule's pattern
\* matches the raw text. Stated for rule lists of well-formed rules.
ParseFailureIsolation ==
    (Terminated /\ ~Parses(code) /\ FrontendAvailable /\ AllWellFormed(rules)) =>
        /\ HasOutput
        /\ Out.error # NoError
        /\ \A k \in 1..Len(rules) :
              IsPatternRule(rules[k]) =>
                 LET text == SourceText(lang, code)
                 IN  {LineOf(text, i) : i \in MatchOffsets(rules[k].pattern, text)}
                        \subseteq Range(LinesUnder(rules[k].id))

\* C2 (single-hop sink soundness): in a run that ends normally on a source
\* that parses, for every taint rule R, every assignment a = E whose text
\* contains a source of R and every later call sink(a) with sink in R.sinks,
\* the line of the call is printed under R.id. Stated for both frontends
\* (for Python where ast.unparse exists; a Java declaration with initializer).
SingleHopSinkSoundness ==
    (pc = "done" /\ Parses(code) /\ FrontendAvailable /\ hasUnparse /\ AllWellFormed(rules)) =>
        \A k \in 1..Len(rules), i \in 1..Len(code), j \in 1..Len(code) :
           ( /\ IsTaintRule(rules[k])
             /\ i < j
             /\ IsDeclaration(code[i])
             /\ AnySourceIn(Get(rules[k], "sources", {}), unparse(code[i].value))
             /\ IsCallStmt(code[j])
             /\ code[j].value.func.kind = "Name"
             /\ <<code[j].value.func.id>> \in Get(rules[k], "sinks", {})
             /\ code[i].targets[1] \in Range(code[j].value.args) )
           => j \in Range(LinesUnder(rules[k].id))

\* C3 (sink name resolution on a receiver call): with the one rule
\* {id t1, taint-ast, sources [request.args], sinks [execute]}, the program
\* q = request.args.get('id'); db.execute(q) yields exactly one finding under
\* t1, at line 2, the line of the db.execute call (in the Python runner
\* where ast.unparse exists, in the Java runner where javalang is installed).
ReceiverCallIsSink ==
    ( /\ Terminated /\ FrontendAvailable /\ hasUnparse
      /\ rules = <<TaintRuleT1>>
      /\ code = <<AssignStmt(<<Name("q")>>, SourceExpr),
                  ExprStmt(Call(Attribute(Name("db"), "execute"), <<Name("q")>>))>> )
    => (HasOutput /\ LinesUnder("t1") = <<2>>)

\* C4 (direct source in argument): in a run that ends normally on a source
\* that parses, for every taint rule R and every call statement whose callable
\* name is in R.sinks and one of whose arguments contains, in its source text,
\* a source of R, the line of the call is printed under R.id; no assignment
\* need have been visited. Stated for both frontends (for Python where
\* ast.unparse exists, for Java where javalang is installed).
DirectSourceInArgument ==
    (pc = "done" /\ Parses(code) /\ FrontendAvailable /\ hasUnparse /\ AllWellFormed(rules)) =>
        \A k \in 1..Len(rules), j \in 1..Len(code) :
           ( /\ IsTaintRule(rules[k])
             /\ IsCallStmt(code[j])
             /\ Callee(code[j].value) \in Get(rules[k], "sinks", {})
             /\ \E a \in Range(code[j].value.args) :
                   AnySourceIn(Get(rules[k], "sources", {}), unparse(a)) )
           => j \in Range(LinesUnder(rules[k].id))

\* an assignment at line i that can put `name` into the taint set: `name` is
\* one of its targets and its right-hand side contains a source of some taint
\* rule of the list or is itself a name
CanTaint(i, name) ==
    /\ code[i].kind = "Assign"
    /\ \E t \in Range(code[i].targets) : get_name(t) = Ok(name)
    /\ \/ get_name(code[i].value).tag = "ok"
       \/ \E k \in 1..Len(rules) :
             /\ Has(rules[k], "type") /\ rules[k].type = "taint-ast"
             /\ AnySourceIn(Get(rules[k], "sources", {}), unparse(code[i].value))

\* every call on line j that is a sink of rule k has only arguments without a
\* source of the rule in their text and, when they are names, names that no
\* assignment above line j can taint
OnlyForwardReferences(k, j) ==
    \A c \in Range(CallsIn(code[j].value, j)) :
       Callee(c) \in Get(rules[k], "sinks", {}) =>
          \A a \in Range(c.args) :
             /\ ~AnySourceIn(Get(rules[k], "sources", {}), unparse(a))
             /\ get_name(a).tag = "ok" =>
                   \A i \in 1..(j - 1) : ~CanTaint(i, get_name(a).name)

\* C5 (forward-reference non-detection): a sink call whose arguments contain
\* no source and are tainted, if at all, only by assignments below it never
\* gets a finding under the rule's id, at no point of the pass and whatever
\* is visited after it.
ForwardReferenceNotDetected ==
    \A k \in 1..Len(rules), j \in 1..Len(code) :
       ( /\ IsTaintRule(rules[k]) /\ IdOnce(k)
         /\ code[j].kind = "Expr"
         /\ OnlyForwardReferences(k, j) )
       => /\ j \notin Range(FindingsUnder(rules[k].id))
          /\ j \notin Range(LinesUnder(rules[k].id))

\* C5 witness: python has run execute(q); q = request.args.get('id') to its
\* end: q is tainted by line 2 and nothing is reported for line 1
ForwardReferenceWitness ==
    /\ lang = "python" /\ hasUnparse /\ pc = "done"
    /\ rules = <<TaintRuleT1>>
    /\ code = <<ExprStmt(Call(Name("execute"), <<Name("q")>>)),
                AssignStmt(<<Name("q")>>, SourceExpr)>>
    /\ tainted_vars = {<<"q">>}
    /\ stdout = Printed(NoFindings, NoError)

\* C6 (taint monotonicity): the taint set is empty when the pass starts and
\* no step of the pass removes a name from it.
TaintMonotone == (tainted_vars = {}) /\ [][tainted_vars \subseteq tainted_vars']_vars

\* C6 witness: the taint set has grown twice (q = request.args.get('id'); b = q)
TaintGrownWitness == tainted_vars = {<<"q">>, <<"b">>}

\* C7 (line number of a pattern match): for every source text and every
\* well-formed regex / heuristic rule whose id no other rule uses, in a run
\* that does not raise, the lines printed under the rule's id are the lines of
\* matches (1 + the newlines before the start offset), in text order, and,
\* the matches not overlapping, one per match.
PatternMatchLines ==
    (Terminated /\ pc # "crashed" /\ AllWellFormed(rules)) =>
        \A k \in 1..Len(rules) :
           (IsPatternRule(rules[k]) /\ IdOnce(k)) =>
              LET text == SourceText(lang, code)
                  starts == MatchOffsets(rules[k].pattern, text)
                  width == IF Len(rules[k].pattern) = 0 THEN 1 ELSE Len(rules[k].pattern)
                  lines == LinesUnder(rules[k].id)
              IN  /\ HasOutput
                  /\ \A n \in 1..Len(lines) : \E i \in starts : lines[n] = LineOf(text, i)
                  /\ \A n \in 1..(Len(lines) - 1) : lines[n] <= lines[n + 1]
                  /\ (\A a, b \in starts : a < b => a + width <= b) =>
                        \A l \in 1..(Len(code) + 1) :
                           Count(lines, l) = Cardinality({i \in starts : LineOf(text, i) = l})

\* C8 (a malformed rule is skipped, not fatal): when the rule list holds a
\* rule that lacks a field its type requires, and the pass over the well-formed
\* rules alone prints a map, the pass prints a map with the same findings.
MalformedRuleSkipped ==
    Terminated =>
        LET good == SelectSeq(rules, WellFormed)
            alone == Output([input EXCEPT !.rules = good])
        IN  (good # rules /\ alone # <<>>) =>
               (HasOutput /\ Out.findings = alone[1].findings)

\* C9 (frontend unavailable): the Java runner without javalang, on well-formed
\* rules, prints every regex / heuristic finding and an error entry saying
\* that the structural and taint analysis was skipped.
FrontendUnavailableSignalled ==
    (Terminated /\ lang = "java" /\ ~javalang.available /\ AllWellFormed(rules)) =>
        /\ HasOutput
        /\ Out.findings = JavaRegexLoop(rules, SourceText(lang, code), Fresh).findings
        /\ Out.error # NoError

\* C10 (determinism across invocations): an invocation that has ended printed
\* what every earlier invocation on the same runner, code and rules printed,
\* whatever was run in between; and each invocation starts its walk with an
\* empty taint set and, in the Python runner, an empty findings map.
Deterministic ==
    /\ Terminated =>
          \A n \in 1..Len(log) :
             (log[n].lang = lang /\ log[n].code = code /\ log[n].rules = rules)
                => log[n].stdout = stdout
    /\ (lang = "python" /\ pc = "walk" /\ nodes = PyNodes(code)) =>
          (tainted_vars = {} /\ findings = NoFindings)
    /\ (lang = "java" /\ pc = "parse") => tainted_vars = {}

\* C10 witness: the third invocation repeats the first after a different
\* second one that left q tainted, and has printed a map
RepeatedRunWitness ==
    /\ runs = 3 /\ pc = "done" /\ HasOutput
    /\ lang = "python" /\ hasUnparse
    /\ rules = <<TaintRuleT1>>
    /\ code = <<ExprStmt(Call(Name("execute"), <<Name("q")>>))>>
    /\ log[1].lang = lang /\ log[1].code = code /\ log[1].rules = rules
    /\ log[2].lang = lang /\ log[2].rules = rules
    /\ log[2].code = <<ExprStmt(Call(Name("execute"), <<Name("q")>>)),
                       AssignStmt(<<Name("q")>>, SourceExpr)>>

\* what a terminated run printed is what the script prints for its payload
PrintsOutput == Terminated => stdout = Output(input)

(* ------------------ expression shapes and rule fields ------------------- *)
\* Programs whose expressions are not all bare identifiers or dotted chains,
\* and rules that use every field of a taint-ast and of an ast rule.
CallOnCallResult == ExprStmt(Call(Attribute(Call(Name("f"), <<>>), "g"), <<>>))   \* f().g()
AssignToCallAttribute ==
    AssignStmt(<<Attribute(Call(Name("f"), <<>>), "x")>>, Name("q"))              \* f().x = q
TaintQ == AssignStmt(<<Name("q")>>, SourceExpr)                                   \* q = request.args.get('id')
AliasB == AssignStmt(<<Name("b")>>, Name("q"))                                    \* b = q
SinkQ == ExprStmt(Call(Name("execute"), <<Name("q")>>))                           \* execute(q)
SinkB == ExprStmt(Call(Name("execute"), <<Name("b")>>))                           \* execute(b)
SinkLiteral == ExprStmt(Call(Name("execute"), <<Constant("'lit'")>>))             \* execute('lit')

ShapeLines ==
    {CallOnCallResult, AssignToCallAttribute, TaintQ, AliasB, SinkQ, SinkB, SinkLiteral}

\* a taint rule one of whose sources is also the name of a variable
TaintRuleT3 ==
    [id |-> "t3", type |-> "taint-ast",
     sources |-> {<<"request", ".", "args">>, <<"q">>}, sinks |-> {<<"execute">>}]
AstRuleA2 ==
    [id |-> "a2", type |-> "ast", calleeName |-> <<"execute">>, argIsString |-> TRUE]
ContextAstRuleA3 ==
    [id |-> "a3", type |-> "context-ast", calleeName |-> <<"execute">>, argIsString |-> TRUE]

ShapeRules == {TaintRuleT1, TaintRuleT3, AstRuleA2, ContextAstRuleA3}
ShapeInputs == Inputs(SeqsUpTo(ShapeLines, MaxLines), SeqsUpTo(ShapeRules, MaxRules))

InitShapes ==
    /\ \E in \in ShapeInputs : Load(in)
    /\ runs = 1
    /\ log = <<>>

SpecShapes == InitShapes /\ [][Next]_vars

\* C11 (name resolution never fails): for every Python source that parses
\* and every list of well-formed rules, the empty list included, the script
\* ends normally: every Assign and Call node has been visited and a findings
\* map without error entry is printed. Resolving the name of an expression
\* that is neither a bare identifier nor a dotted chain (f().g(), f().x = q)
\* gives no name and raises nothing.
NameResolutionTotal ==
    (Terminated /\ lang = "python" /\ Parses(code) /\ AllWellFormed(rules)) =>
        /\ pc = "done"
        /\ nodes = <<>>
        /\ HasOutput
        /\ Out.error = NoError

\* the walk is about to visit a call node
VisitingCall ==
    pc = "walk" /\ nodes # <<>> /\ Head(nodes).kind \in {"Call", "MethodInvocation"}

\* the callable name and the arguments of a call node of the walk
NodeCallee(n) ==
    IF lang = "java" THEN <<n.member>>
    ELSE IF get_name(n.func).tag = "ok" THEN get_name(n.func).name ELSE <<>>
NodeArgs(n) == IF lang = "java" THEN n.arguments ELSE n.args

\* the text the frontend renders for an argument
ArgText(arg) ==
    IF lang = "java" THEN JavaStr(arg, javalang.repr)
    ELSE IF hasUnparse THEN unparse(arg) ELSE <<>>

\* the name the frontend resolves for an argument is in the taint set
ArgTainted(arg) ==
    IF lang = "java" THEN JavaStr(arg, javalang.repr) \in tainted_vars
    ELSE get_name(arg).tag = "ok" /\ get_name(arg).name \in tainted_vars

\* the arguments of a call that qualify under a taint rule
QualifyingArgs(rule, n) ==
    {i \in 1..Len(NodeArgs(n)) :
        AnySourceIn(Get(rule, "sources", {}), ArgText(NodeArgs(n)[i])) \/ ArgTainted(NodeArgs(n)[i])}

\* C12 (one finding per qualifying argument): whenever the walk visits a call
\* without raising, for every taint rule R whose sinks hold the callable name,
\* the number of findings added under R.id by the visit equals the number of
\* arguments that qualify (rendered text contains a source of R, or resolved
\* name in the taint set), also when one argument qualifies both ways.
OneFindingPerArgument ==
    [][ (VisitingCall /\ pc' = "walk") =>
          \A k \in 1..Len(rules) :
             ( /\ IsTaintRule(rules[k])
               /\ IdOnce(k)
               /\ NodeCallee(Head(nodes)) \in Get(rules[k], "sinks", {}) )
             => Len(FindingsUnder(rules[k].id)') =
                   Len(FindingsUnder(rules[k].id)) + Cardinality(QualifyingArgs(rules[k], Head(nodes)))
      ]_vars

\* the walk is about to visit an assignment (a Java declaration with initializer)
VisitingAssign ==
    pc = "walk" /\ nodes # <<>> /\ Head(nodes).kind \in {"Assign", "VariableDeclarator"}

\* the right-hand side of an assignment node and the names of its targets
NodeRhs(n) == IF lang = "java" THEN n.initializer ELSE n.value
NodeLhsNames(n) ==
    IF lang = "java" THEN {n.name}
    ELSE {get_name(n.targets[i]).name :
             i \in {j \in 1..Len(n.targets) : get_name(n.targets[j]).tag = "ok"}}

\* the lines a = E; b = a; sink(b) at i < m < j, E containing a source and
\* sink being a sink of the rule
AliasChain(rule, i, m, j) ==
    /\ i < m /\ m < j
    /\ IsDeclaration(code[i])
    /\ AnySourceIn(Get(rule, "sources", {}), unparse(code[i].value))
    /\ IsDeclaration(code[m])
    /\ code[m].value = code[i].targets[1]
    /\ IsCallStmt(code[j])
    /\ code[j].value.func.kind = "Name"
    /\ <<code[j].value.func.id>> \in Get(rule, "sinks", {})
    /\ code[m].targets[1] \in Range(code[j].value.args)

\* C13 (one-hop alias propagation, in each frontend): whenever the walk
\* visits, without raising, an assignment whose right-hand side resolves to a
\* name in the taint set, every resolvable target is in the taint set
\* afterwards, whether or not the right-hand side contains a source; and a
\* run that ends normally on a = E; b = a; sink(b), E containing a source of
\* a taint rule R and sink in R.sinks, prints the line of the sink call under
\* R.id (for Python where ast.unparse exists, for Java where javalang is
\* installed).
OneHopAliasPropagation ==
    [][ /\ ( /\ VisitingAssign
             /\ pc' = "walk"
             /\ get_name(NodeRhs(Head(nodes))).tag = "ok"
             /\ get_name(NodeRhs(Head(nodes))).name \in tainted_vars )
           => NodeLhsNames(Head(nodes)) \subseteq tainted_vars'
        /\ ( /\ pc' = "done" /\ Parses(code) /\ FrontendAvailable /\ hasUnparse
             /\ AllWellFormed(rules) )
           => \A k \in 1..Len(rules), i \in 1..Len(code), m \in 1..Len(code), j \in 1..Len(code) :
                 (IsTaintRule(rules[k]) /\ AliasChain(rules[k], i, m, j))
                 => j \in Range(LinesUnder(rules[k].id)')
      ]_vars

\* the line a finding of a call node is reported at
NodeLine(n) == IF lang = "java" THEN JavaLine(n, javalang) ELSE n.lineno

\* objectName matches the receiver of a call node: a prefix of the resolved
\* name in the Python frontend, the qualifier itself in the Java frontend
ReceiverMatches(n, objectName) ==
    IF lang = "java" THEN n.qualifier = objectName
    ELSE StartsWith(NodeCallee(n), objectName)

\* the number of predicates of an ast / context-ast rule true of a call node
TruePredicates(rule, n) ==
    (IF Truthy(rule, "calleeName") /\ NodeCallee(n) = rule.calleeName THEN 1 ELSE 0)
    + (IF Truthy(rule, "objectName") /\ ReceiverMatches(n, rule.objectName) THEN 1 ELSE 0)
    + (IF /\ Get(rule, "argIsString", FALSE)
          /\ Len(NodeArgs(n)) > 0
          /\ NodeArgs(n)[1].kind = "Constant"
       THEN 1 ELSE 0)

\* C14 (structural predicates, in each frontend): whenever the walk visits a
\* call without raising, for every rule of type ast or context-ast, the
\* visit adds under the rule id one finding at the call's line per true
\* predicate among calleeName, objectName and argIsString, and nothing else;
\* a field that is not set adds nothing, and a context-ast rule adds what an
\* ast rule with the same fields adds.
StructuralPredicateCount ==
    [][ (VisitingCall /\ pc' = "walk") =>
          \A k \in 1..Len(rules) :
             ( /\ WellFormed(rules[k])
               /\ rules[k].type \in {"ast", "context-ast"}
               /\ IdOnce(k) )
             => FindingsUnder(rules[k].id)' =
                   FindingsUnder(rules[k].id)
                   \o [i \in 1..TruePredicates(rules[k], Head(nodes)) |-> NodeLine(Head(nodes))]
      ]_vars

(* ----------------------- several taint rules --------------------------- *)
\* a taint rule whose sources occur in no program below
TaintRuleT2 ==
    [id |-> "t2", type |-> "taint-ast",
     sources |-> {<<"input">>}, sinks |-> {<<"execute">>}]

SharedLines == {TaintQ, AliasB, SinkQ, CallOnCallResult}
SharedRules == {TaintRuleT1, TaintRuleT2}
SharedInputs == Inputs(SeqsUpTo(SharedLines, MaxLines), SeqsUpTo(SharedRules, MaxRules))

InitShared ==
    /\ \E in \in SharedInputs : Load(in)
    /\ runs = 1
    /\ log = <<>>

SpecShared == InitShared /\ [][Next]_vars

\* C15 (one taint set shared by all rules): in the Python runner, whenever
\* the walk visits a call whose callable name is in the sinks of a taint rule
\* B and one of whose arguments is a variable in the taint set, whichever
\* rule's sources put it there, the visit adds a finding at the line of the
\* call under B.id, also when no source of B occurs in the argument.
SharedTaintSet ==
    [][ (VisitingCall /\ lang = "python") =>
          \A k \in 1..Len(rules) :
             ( /\ IsTaintRule(rules[k])
               /\ NodeCallee(Head(nodes)) \in Get(rules[k], "sinks", {})
               /\ \E a \in Range(NodeArgs(Head(nodes))) : ArgTainted(a) )
             => /\ Len(FindingsUnder(rules[k].id)') > Len(FindingsUnder(rules[k].id))
                /\ NodeLine(Head(nodes)) \in Range(FindingsUnder(rules[k].id)')
      ]_vars

\* q is tainted through a source of t1 alone, no source of t2 occurs in the
\* program, and the call execute(q) at line 2 is printed under t2
SharedTaintWitness ==
    /\ lang = "python" /\ pc = "done"
    /\ code = <<TaintQ, SinkQ>>
    /\ rules = <<TaintRuleT2, TaintRuleT1>>
    /\ ~AnySourceIn(TaintRuleT2.sources, SourceText(lang, code))
    /\ tainted_vars = {<<"q">>}
    /\ LinesUnder("t2") = <<2>>

====
